---- MODULE Spec2Model ----
(***************************************************************************)
(* A model of the conversation driver of telephonepi (src/assistant.py):   *)
(* the CLI loop of main, the tenacity retry wrapper around                  *)
(* Assistant.assist, the request generator gen_assist_requests and the     *)
(* response loop of assist.                                                *)
(*                                                                         *)
(* The remote service and the gRPC stub are the environment: the stub      *)
(* pulls the request generator lazily, one request per step, interleaved   *)
(* with the delivery of responses; the service answers only after it has   *)
(* received the config request; the call can fail at any point while it is *)
(* open.  The audio transport (audio_helpers.ConversationStream) is an    *)
(* external collaborator; its toggles follow its documented contract:      *)
(* start/stop set the recording and playing flags, and its input is        *)
(* exhausted once recording has stopped.  Responses and chunks are         *)
(* budgeted over the lifetime of the Assistant (MaxEvents, MaxChunks).     *)
(*                                                                         *)
(* The text variant (src/textinput.py, SampleTextAssistant) is modelled by *)
(* its own actions and specification SpecText over the variables t_*; the  *)
(* two programs share nothing, and each specification leaves the other's   *)
(* variables as Init set them.                                             *)
(***************************************************************************)
EXTENDS Integers, Sequences, FiniteSets, TLC

\* ---------------------------------------------------------------- bounds
MaxTurns == 2
MaxEvents == 2
MaxChunks == 1

\* ------------------------------------------------------ program constants
END_OF_UTTERANCE == "END_OF_UTTERANCE"
DIALOG_FOLLOW_ON == "DIALOG_FOLLOW_ON"
CLOSE_MICROPHONE == "CLOSE_MICROPHONE"
MaxAttempts == 3
\* self.conversation_state = None
None == -1
\* volume of the audio transport before any update
DefaultVolume == 50

\* ------------------------------------------------------------ value sets
\* empty bytes / unset proto field
Empty == 0
EventTypes == {"EVENT_TYPE_UNSPECIFIED", END_OF_UTTERANCE}
MicrophoneModes == {"MICROPHONE_MODE_UNSPECIFIED", CLOSE_MICROPHONE, DIALOG_FOLLOW_ON}
ConversationStates == {Empty, 1, 2}
Volumes == {0, 45, 100}
AudioPayloads == {Empty, 1}

\* AssistResponse: the fields the response loop looks at
AssistResponse ==
  [event_type : EventTypes,
   audio_data : AudioPayloads,
   conversation_state : ConversationStates,
   volume_percentage : Volumes,
   microphone_mode : MicrophoneModes]

\* number of fields of r that are set
FieldsSet(r) ==
  (IF r.event_type # "EVENT_TYPE_UNSPECIFIED" THEN 1 ELSE 0)
  + (IF r.audio_data # Empty THEN 1 ELSE 0)
  + (IF r.conversation_state # Empty THEN 1 ELSE 0)
  + (IF r.volume_percentage # 0 THEN 1 ELSE 0)
  + (IF r.microphone_mode # "MICROPHONE_MODE_UNSPECIFIED" THEN 1 ELSE 0)

\* the responses the remote sends: at most two fields set, or a
\* dialog_state_out (conversation state, volume, microphone mode) alone
Responses ==
  {r \in AssistResponse :
     \/ FieldsSet(r) <= 2
     \/ (r.event_type = "EVENT_TYPE_UNSPECIFIED" /\ r.audio_data = Empty)}

\* exceptions: the class (grpc.RpcError or not), the status code, and the
\* attempt that raised it (its identity)
RpcError(code, n) == [is_grpc_error |-> TRUE, code |-> code, attempt |-> n]
AudioDeviceError(n) == [is_grpc_error |-> FALSE, code |-> "NONE", attempt |-> n]
NoError == [is_grpc_error |-> FALSE, code |-> "NONE", attempt |-> 0]
StatusCodes == {"UNAVAILABLE", "DEADLINE_EXCEEDED"}

\* AssistRequest envelopes
NoConfig == [present |-> FALSE, conversation_state |-> None,
             is_new_conversation |-> FALSE]
\* variant: the stored conversation state is not passed on
AssistConfigWithoutState(cs, isNew) ==
  [present |-> TRUE, conversation_state |-> None, is_new_conversation |-> isNew]

\* lines 137-155
AssistConfig(cs, isNew) ==
  [present |-> TRUE, conversation_state |-> cs, is_new_conversation |-> isNew]

VARIABLES
  main_pc,                \* position of main: waiting, loop, in_assist, raised, closed
  turns,                  \* calls of assistant.assist() made by main
  last_outcome,           \* none, returned, raised: how the last call ended
  result,                 \* value returned by the last call
  raised_error,           \* exception that reached main
  conversation_state,     \* Assistant.conversation_state
  is_new_conversation,    \* Assistant.is_new_conversation
  recording,              \* conversation_stream: recording
  playing,                \* conversation_stream.playing
  volume_percentage,      \* conversation_stream.volume_percentage
  stream_closed,          \* conversation_stream.close() was called
  attempt_number,         \* tenacity's attempt number of the current call
  failures,               \* exceptions raised by the attempts of the current call
  continue_conversation,  \* local of assist
  gen_pc,                 \* request generator: none, start, streaming, done
  outbound,               \* requests yielded by the generator of this attempt
  reads,                  \* chunks read from the transport in this attempt
  modes_seen,             \* microphone modes of the responses handled in this attempt
  audio_seen,             \* this call: a response with audio data was delivered
  start_playback_calls,   \* this call: start_playback() invocations
  stop_playback_calls,    \* this call: stop_playback() invocations
  cs_at_turn_start,       \* conversation_state when main called assist()
  cs_seen,                \* this call: a response with a conversation state was delivered
  vol_at_turn_start,      \* transport volume when main called assist()
  last_nonzero_vol,       \* this call: last nonzero volume handled (0: none)
  last_cs_received,       \* lifetime: last non-empty conversation state handled
  config_built,           \* lifetime: a config request has been built
  true_emissions,         \* lifetime: config requests with is_new_conversation
  events_delivered,       \* lifetime: responses delivered by the remote
  chunks_read,            \* lifetime: chunks read from the transport
  open_streams,           \* response streams of Assist calls not yet ended
  start_recording_calls,  \* start_recording() calls of the current turn
  writes,                 \* conversation_stream.write() calls of the current turn
  audio_handled,          \* non-empty audio payloads handled in the current turn
  write_outside_playback, \* a write() call was made while not playing
  playback_started_recording, \* start_playback() was called while recording
  eou_seen,               \* this attempt handled an END_OF_UTTERANCE response
  is_new_at_turn_start,   \* is_new_conversation when the turn started
  cs_at_attempt_start,    \* conversation_state when the attempt started
  is_new_at_attempt_start, \* is_new_conversation when the attempt started
  t_pc,                   \* textinput main: prompt, in_assist, raised
  t_turns,                \* textinput: calls of assist(text_query)
  t_query,                \* textinput: text_query of the current call
  t_conversation_state,   \* SampleTextAssistant.conversation_state
  t_is_new_conversation,  \* SampleTextAssistant.is_new_conversation
  t_gen_pc,               \* iter_assist_requests: none, start, yielded, done
  t_outbound,             \* requests yielded in the current call
  text_response,          \* local of SampleTextAssistant.assist
  html_response,          \* local of SampleTextAssistant.assist
  t_result,               \* pair returned by the last call
  t_resps,                \* responses handled in the current call
  t_cs_at_turn_start,     \* conversation state when the call started
  t_last_cs,              \* lifetime: last non-empty conversation state handled
  t_config_built,         \* lifetime: a config request has been built
  t_true_emissions,       \* lifetime: config requests with is_new_conversation
  t_events                \* lifetime: responses delivered by the remote

driver_vars == <<conversation_state, is_new_conversation>>
transport_vars == <<recording, playing, volume_percentage, stream_closed>>
main_vars == <<main_pc, turns, last_outcome, result, raised_error>>
retry_vars == <<attempt_number, failures>>
attempt_vars == <<continue_conversation, gen_pc, outbound, reads, modes_seen>>
turn_ghosts == <<audio_seen, start_playback_calls, stop_playback_calls,
                 cs_at_turn_start, cs_seen,
                 vol_at_turn_start, last_nonzero_vol>>
life_ghosts == <<last_cs_received, config_built, true_emissions>>
budget_vars == <<events_delivered, chunks_read>>
order_ghosts == <<open_streams, start_recording_calls, writes, audio_handled,
                  write_outside_playback, playback_started_recording,
                  eou_seen, is_new_at_turn_start, cs_at_attempt_start,
                  is_new_at_attempt_start>>
assistant_vars == <<order_ghosts, driver_vars, transport_vars, main_vars, retry_vars,
                    attempt_vars, turn_ghosts, life_ghosts, budget_vars>>
text_vars == <<t_pc, t_turns, t_query, t_conversation_state,
               t_is_new_conversation, t_gen_pc, t_outbound, text_response,
               html_response, t_result, t_resps, t_cs_at_turn_start, t_last_cs,
               t_config_built, t_true_emissions, t_events>>
vars == <<assistant_vars, text_vars>>

\* ------------------------------------------------------------------ Init
Init ==
  /\ main_pc = "waiting"
  /\ turns = 0
  /\ last_outcome = "none"
  /\ result = FALSE
  /\ raised_error = NoError
  /\ conversation_state = None
  /\ is_new_conversation = TRUE
  /\ recording = FALSE
  /\ playing = FALSE
  /\ volume_percentage = DefaultVolume
  /\ stream_closed = FALSE
  /\ attempt_number = 0
  /\ failures = <<>>
  /\ continue_conversation = FALSE
  /\ gen_pc = "none"
  /\ outbound = <<>>
  /\ reads = <<>>
  /\ modes_seen = <<>>
  /\ audio_seen = FALSE
  /\ start_playback_calls = 0
  /\ stop_playback_calls = 0
  /\ cs_at_turn_start = None
  /\ cs_seen = FALSE
  /\ vol_at_turn_start = DefaultVolume
  /\ last_nonzero_vol = 0
  /\ last_cs_received = None
  /\ config_built = FALSE
  /\ true_emissions = 0
  /\ events_delivered = 0
  /\ chunks_read = 0
  /\ open_streams = 0
  /\ start_recording_calls = 0
  /\ writes = <<>>
  /\ audio_handled = <<>>
  /\ write_outside_playback = FALSE
  /\ playback_started_recording = FALSE
  /\ eou_seen = FALSE
  /\ is_new_at_turn_start = TRUE
  /\ cs_at_attempt_start = None
  /\ is_new_at_attempt_start = FALSE
  /\ t_pc = "prompt"
  /\ t_turns = 0
  /\ t_query = Empty
  /\ t_conversation_state = None
  /\ t_is_new_conversation = TRUE
  /\ t_gen_pc = "none"
  /\ t_outbound = <<>>
  /\ text_response = None
  /\ html_response = None
  /\ t_result = <<None, None>>
  /\ t_resps = <<>>
  /\ t_cs_at_turn_start = None
  /\ t_last_cs = None
  /\ t_config_built = FALSE
  /\ t_true_emissions = 0
  /\ t_events = 0

\* ------------------------------------------------- the retry predicate
\* variant: a predicate that retries whatever was raised
RetryEveryException(e) ==
  TRUE

\* variant: every gRPC error counts as transient
IsAnyGrpcError(e) ==
  e.is_grpc_error

is_grpc_error_unavailable(e) ==
  e.is_grpc_error /\ e.code = "UNAVAILABLE"

\* variant: the stop condition is off by one
ShouldRetryOnceMore(e, n) ==
  is_grpc_error_unavailable(e) /\ n <= MaxAttempts

\* tenacity: retry=retry_if_exception(...), stop=stop_after_attempt(3)
ShouldRetry(e, n) ==
  is_grpc_error_unavailable(e) /\ n < MaxAttempts

\* ------------------------------------------ the body of the response loop
\* variant: the elif branch of CLOSE_MICROPHONE is missing
UpdateContinueNoClose(cont, mode) ==
  IF mode = DIALOG_FOLLOW_ON THEN TRUE ELSE cont

\* lines 120-124
UpdateContinue(cont, mode) ==
  IF mode = DIALOG_FOLLOW_ON THEN TRUE
  ELSE IF mode = CLOSE_MICROPHONE THEN FALSE
  ELSE cont

\* variant: the stored state is overwritten by empty values too
UpdateConversationStateAlways(old, cs) ==
  cs

\* variant: an empty value resets the stored state
UpdateConversationStateOrReset(old, cs) ==
  IF cs # Empty THEN cs ELSE None

\* lines 112-115
UpdateConversationState(old, cs) ==
  IF cs # Empty THEN cs ELSE old

\* variant: a volume of 0 is applied too
UpdateVolumeAlways(old, v) ==
  v

\* lines 116-119
UpdateVolume(old, v) ==
  IF v # 0 THEN v ELSE old

\* variant: playback starts on any response
ShouldStartPlaybackAnyResp(r, isPlaying) ==
  ~isPlaying

\* lines 106-107
ShouldStartPlayback(r, isPlaying) ==
  r.audio_data # Empty /\ ~isPlaying

\* variant: write() is called for every response, without the length test
WritesAfterEveryResponse(w, data) ==
  Append(w, data)

\* lines 106 and 111: the write() calls after one response
WritesAfter(w, data) ==
  IF data # Empty THEN Append(w, data) ELSE w

\* the audio payload of the response handled now: the payloads of a turn
\* are told apart by their place among them in the order of arrival
PayloadOf(r) ==
  IF r.audio_data # Empty THEN Len(audio_handled) + 1 ELSE Empty

\* variant: the event type is not looked at
RecordingAfterIgnoresEvent(r, isRecording, isPlaying) ==
  IF ShouldStartPlayback(r, isPlaying) THEN FALSE ELSE isRecording

\* lines 97-100 and 108: recording after the toggles of one response
RecordingAfter(r, isRecording, isPlaying) ==
  IF r.event_type = END_OF_UTTERANCE THEN FALSE
  ELSE IF ShouldStartPlayback(r, isPlaying) THEN FALSE
  ELSE isRecording

\* ------------------------------------------------ the request generator
ConfigRequest(cfg) == [config |-> cfg, audio_in |-> Empty]
\* variant: every request repeats a config
AudioRequestWithConfig(data) ==
  [config |-> AssistConfig(None, FALSE), audio_in |-> data]

\* line 165
AudioRequest(data) ==
  [config |-> NoConfig, audio_in |-> data]

\* variant: the flag is left as it was
KeptIsNewConversation ==
  is_new_conversation

\* line 159
ClearedIsNewConversation ==
  FALSE

\* ------------------------------------------------------- start of assist
\* variant: the attempt does not call start_recording()
BeginAttemptKeepsRecording(n) ==
  /\ attempt_number' = n
  /\ continue_conversation' = FALSE
  /\ recording' = recording
  /\ start_recording_calls' = (IF n = 1 THEN 0 ELSE start_recording_calls)
  /\ gen_pc' = "start"
  /\ cs_at_attempt_start' = conversation_state
  /\ is_new_at_attempt_start' = is_new_conversation
  /\ eou_seen' = FALSE
  /\ outbound' = <<>>
  /\ reads' = <<>>
  /\ modes_seen' = <<>>

\* lines 83-96: the locals, start_recording(), a fresh generator
BeginAttempt(n) ==
  /\ attempt_number' = n
  /\ continue_conversation' = FALSE
  /\ recording' = TRUE
  /\ start_recording_calls' = (IF n = 1 THEN 0 ELSE start_recording_calls) + 1
  /\ gen_pc' = "start"
  /\ cs_at_attempt_start' = conversation_state
  /\ is_new_at_attempt_start' = is_new_conversation
  /\ eou_seen' = FALSE
  /\ outbound' = <<>>
  /\ reads' = <<>>
  /\ modes_seen' = <<>>

\* the frame of assist and its generator are gone
DropLocals ==
  /\ continue_conversation' = FALSE
  /\ gen_pc' = "none"
  /\ cs_at_attempt_start' = None
  /\ is_new_at_attempt_start' = FALSE
  /\ eou_seen' = FALSE
  /\ outbound' = <<>>
  /\ reads' = <<>>
  /\ modes_seen' = <<>>

\* main: trigger.wait_for_press()
WaitForPress ==
  /\ main_pc = "waiting"
  /\ main_pc' = "loop"
  /\ UNCHANGED <<turns, last_outcome, result, raised_error, driver_vars,
                 transport_vars, retry_vars, attempt_vars, turn_ghosts, life_ghosts>>
  /\ UNCHANGED budget_vars
  /\ UNCHANGED open_streams
  /\ UNCHANGED start_recording_calls
  /\ UNCHANGED writes
  /\ UNCHANGED audio_handled
  /\ UNCHANGED write_outside_playback
  /\ UNCHANGED playback_started_recording
  /\ UNCHANGED eou_seen
  /\ UNCHANGED is_new_at_turn_start
  /\ UNCHANGED cs_at_attempt_start
  /\ UNCHANGED is_new_at_attempt_start
  /\ UNCHANGED text_vars

\* variant: assist is also entered from a press callback while a call runs
StartTurnReentrant ==
  /\ main_pc \in {"loop", "in_assist"}
  /\ turns < MaxTurns
  /\ main_pc' = "in_assist"
  /\ turns' = turns + 1
  /\ last_outcome' = "none"
  /\ result' = FALSE
  /\ BeginAttempt(1)
  /\ failures' = <<>>
  /\ audio_seen' = FALSE
  /\ start_playback_calls' = 0
  /\ stop_playback_calls' = 0
  /\ cs_at_turn_start' = conversation_state
  /\ cs_seen' = FALSE
  /\ vol_at_turn_start' = volume_percentage
  /\ last_nonzero_vol' = 0
  /\ UNCHANGED <<raised_error, driver_vars, playing, volume_percentage,
                 stream_closed, last_cs_received, config_built, true_emissions>>
  /\ UNCHANGED budget_vars
  /\ open_streams' = open_streams + 1
  /\ writes' = <<>>
  /\ audio_handled' = <<>>
  /\ write_outside_playback' = FALSE
  /\ playback_started_recording' = FALSE
  /\ is_new_at_turn_start' = is_new_conversation
  /\ UNCHANGED text_vars

\* main: while trigger.is_pressed: assistant.assist()
StartTurn ==
  /\ main_pc = "loop"
  /\ turns < MaxTurns
  /\ main_pc' = "in_assist"
  /\ turns' = turns + 1
  /\ last_outcome' = "none"
  /\ result' = FALSE
  /\ BeginAttempt(1)
  /\ failures' = <<>>
  /\ audio_seen' = FALSE
  /\ start_playback_calls' = 0
  /\ stop_playback_calls' = 0
  /\ cs_at_turn_start' = conversation_state
  /\ cs_seen' = FALSE
  /\ vol_at_turn_start' = volume_percentage
  /\ last_nonzero_vol' = 0
  /\ UNCHANGED <<raised_error, driver_vars, playing, volume_percentage,
                 stream_closed, last_cs_received, config_built, true_emissions>>
  /\ UNCHANGED budget_vars
  /\ open_streams' = open_streams + 1
  /\ writes' = <<>>
  /\ audio_handled' = <<>>
  /\ write_outside_playback' = FALSE
  /\ playback_started_recording' = FALSE
  /\ is_new_at_turn_start' = is_new_conversation
  /\ UNCHANGED text_vars

\* main: trigger released; Assistant.__exit__ closes the stream
ExitLoop ==
  /\ main_pc = "loop"
  /\ main_pc' = "closed"
  /\ stream_closed' = TRUE
  /\ DropLocals
  /\ UNCHANGED <<turns, last_outcome, result, raised_error, driver_vars,
                 recording, playing, volume_percentage, retry_vars,
                 turn_ghosts, life_ghosts>>
  /\ UNCHANGED budget_vars
  /\ UNCHANGED open_streams
  /\ UNCHANGED start_recording_calls
  /\ UNCHANGED writes
  /\ UNCHANGED audio_handled
  /\ UNCHANGED write_outside_playback
  /\ UNCHANGED playback_started_recording
  /\ UNCHANGED is_new_at_turn_start
  /\ UNCHANGED text_vars

\* the stub pulls the first request: lines 137-162
GenConfig ==
  /\ main_pc = "in_assist"
  /\ gen_pc = "start"
  /\ outbound' = Append(outbound,
        ConfigRequest(AssistConfig(conversation_state, is_new_conversation)))
  /\ is_new_conversation' = ClearedIsNewConversation
  /\ gen_pc' = "streaming"
  /\ config_built' = TRUE
  /\ true_emissions' = true_emissions + (IF is_new_conversation THEN 1 ELSE 0)
  /\ UNCHANGED <<conversation_state, transport_vars, main_vars, retry_vars,
                 continue_conversation, reads, modes_seen, turn_ghosts,
                 last_cs_received>>
  /\ UNCHANGED budget_vars
  /\ UNCHANGED open_streams
  /\ UNCHANGED start_recording_calls
  /\ UNCHANGED writes
  /\ UNCHANGED audio_handled
  /\ UNCHANGED write_outside_playback
  /\ UNCHANGED playback_started_recording
  /\ UNCHANGED eou_seen
  /\ UNCHANGED is_new_at_turn_start
  /\ UNCHANGED cs_at_attempt_start
  /\ UNCHANGED is_new_at_attempt_start
  /\ UNCHANGED text_vars

\* the stub pulls a further request: lines 163-165, one chunk of the transport
GenAudio ==
  /\ main_pc = "in_assist"
  /\ gen_pc = "streaming"
  /\ recording
  /\ chunks_read < MaxChunks
  /\ LET data == chunks_read + 1 IN
       /\ reads' = Append(reads, data)
       /\ outbound' = Append(outbound, AudioRequest(data))
  /\ chunks_read' = chunks_read + 1
  /\ UNCHANGED <<driver_vars, transport_vars, main_vars, retry_vars,
                 continue_conversation, gen_pc, modes_seen,
                 turn_ghosts, life_ghosts>>
  /\ UNCHANGED events_delivered
  /\ UNCHANGED open_streams
  /\ UNCHANGED start_recording_calls
  /\ UNCHANGED writes
  /\ UNCHANGED audio_handled
  /\ UNCHANGED write_outside_playback
  /\ UNCHANGED playback_started_recording
  /\ UNCHANGED eou_seen
  /\ UNCHANGED is_new_at_turn_start
  /\ UNCHANGED cs_at_attempt_start
  /\ UNCHANGED is_new_at_attempt_start
  /\ UNCHANGED text_vars

\* the transport's input is exhausted once recording has stopped: line 163
\* leaves the for loop, line 92 ends the generator
GenEnd ==
  /\ main_pc = "in_assist"
  /\ gen_pc = "streaming"
  /\ ~recording
  /\ gen_pc' = "done"
  /\ UNCHANGED <<driver_vars, transport_vars, main_vars, retry_vars,
                 continue_conversation, outbound, reads, modes_seen,
                 turn_ghosts, life_ghosts>>
  /\ UNCHANGED budget_vars
  /\ UNCHANGED open_streams
  /\ UNCHANGED start_recording_calls
  /\ UNCHANGED writes
  /\ UNCHANGED audio_handled
  /\ UNCHANGED write_outside_playback
  /\ UNCHANGED playback_started_recording
  /\ UNCHANGED eou_seen
  /\ UNCHANGED is_new_at_turn_start
  /\ UNCHANGED cs_at_attempt_start
  /\ UNCHANGED is_new_at_attempt_start
  /\ UNCHANGED text_vars

\* an attempt ends with exception e: tenacity starts the next attempt or
\* re-raises e (reraise=True); recAfter is the transport's recording flag
\* at the raise
OnFailure(e, recAfter) ==
  /\ failures' = Append(failures, e)
  /\ IF ShouldRetry(e, attempt_number)
     THEN /\ BeginAttempt(attempt_number + 1)
          /\ UNCHANGED main_vars
     ELSE /\ main_pc' = "raised"
          /\ last_outcome' = "raised"
          /\ raised_error' = e
          /\ recording' = recAfter
          /\ DropLocals
          /\ UNCHANGED <<turns, result, attempt_number, start_recording_calls>>

\* one iteration of the response loop, lines 96-124
RecvResp ==
  /\ main_pc = "in_assist"
  /\ gen_pc # "start"
  /\ events_delivered < MaxEvents
  /\ events_delivered' = events_delivered + 1
  /\ UNCHANGED chunks_read
  /\ \E r \in Responses :
       /\ recording' = RecordingAfter(r, recording, playing)
       /\ playing' = (playing \/ ShouldStartPlayback(r, playing))
       /\ start_playback_calls' = start_playback_calls +
             (IF ShouldStartPlayback(r, playing) THEN 1 ELSE 0)
       /\ conversation_state' =
             UpdateConversationState(conversation_state, r.conversation_state)
       /\ volume_percentage' = UpdateVolume(volume_percentage, r.volume_percentage)
       /\ continue_conversation' = UpdateContinue(continue_conversation, r.microphone_mode)
       /\ modes_seen' = Append(modes_seen, r.microphone_mode)
       /\ audio_seen' = (audio_seen \/ r.audio_data # Empty)
       /\ eou_seen' = (eou_seen \/ r.event_type = END_OF_UTTERANCE)
       /\ writes' = WritesAfter(writes, PayloadOf(r))
       /\ audio_handled' =
             (IF r.audio_data # Empty THEN Append(audio_handled, PayloadOf(r))
              ELSE audio_handled)
       /\ write_outside_playback' =
             (write_outside_playback \/
                (writes' # writes /\ ~(playing \/ ShouldStartPlayback(r, playing))))
       /\ playback_started_recording' =
             (playback_started_recording \/
                (/\ ShouldStartPlayback(r, playing)
                 /\ RecordingAfter(r, recording, playing)))
       /\ cs_seen' = (cs_seen \/ r.conversation_state # Empty)
       /\ last_cs_received' =
             (IF r.conversation_state # Empty THEN r.conversation_state
              ELSE last_cs_received)
       /\ last_nonzero_vol' =
             (IF r.volume_percentage # 0 THEN r.volume_percentage
              ELSE last_nonzero_vol)
  /\ UNCHANGED <<is_new_conversation, stream_closed, main_vars, retry_vars,
                 gen_pc, outbound, reads, stop_playback_calls, cs_at_turn_start,
                 vol_at_turn_start, config_built,
                 true_emissions>>
  /\ UNCHANGED open_streams
  /\ UNCHANGED start_recording_calls
  /\ UNCHANGED is_new_at_turn_start
  /\ UNCHANGED cs_at_attempt_start
  /\ UNCHANGED is_new_at_attempt_start
  /\ UNCHANGED text_vars

\* the stub pulls a further request and the transport's read behind line 163
\* raises: nothing in the generator or in assist catches it, and it leaves
\* the call of line 96 as the exception of this attempt
GenReadFails ==
  /\ main_pc = "in_assist"
  /\ gen_pc = "streaming"
  /\ recording
  /\ OnFailure(AudioDeviceError(attempt_number), recording)
  /\ UNCHANGED <<driver_vars, playing, volume_percentage, stream_closed,
                 turn_ghosts, last_cs_received, config_built, true_emissions,
                 events_delivered, chunks_read>>
  /\ open_streams' = open_streams +
        (IF ShouldRetry(AudioDeviceError(attempt_number), attempt_number)
         THEN 1 ELSE 0)
  /\ UNCHANGED writes
  /\ UNCHANGED audio_handled
  /\ UNCHANGED write_outside_playback
  /\ UNCHANGED playback_started_recording
  /\ UNCHANGED is_new_at_turn_start
  /\ UNCHANGED text_vars

\* an iteration whose conversation_stream.write (line 111) raises: the
\* toggles of lines 97-109 have run, lines 112-124 have not
RecvRespWriteFails ==
  /\ main_pc = "in_assist"
  /\ gen_pc # "start"
  /\ events_delivered < MaxEvents
  /\ events_delivered' = events_delivered + 1
  /\ UNCHANGED chunks_read
  /\ \E r \in Responses :
       /\ r.audio_data # Empty
       /\ playing' = (playing \/ ShouldStartPlayback(r, playing))
       /\ start_playback_calls' = start_playback_calls +
             (IF ShouldStartPlayback(r, playing) THEN 1 ELSE 0)
       /\ audio_seen' = TRUE
       /\ writes' = WritesAfter(writes, PayloadOf(r))
       /\ audio_handled' =
             (IF r.audio_data # Empty THEN Append(audio_handled, PayloadOf(r))
              ELSE audio_handled)
       /\ write_outside_playback' =
             (write_outside_playback \/
                (writes' # writes /\ ~(playing \/ ShouldStartPlayback(r, playing))))
       /\ playback_started_recording' =
             (playback_started_recording \/
                (/\ ShouldStartPlayback(r, playing)
                 /\ RecordingAfter(r, recording, playing)))
       /\ cs_seen' = (cs_seen \/ r.conversation_state # Empty)
       /\ OnFailure(AudioDeviceError(attempt_number),
                    RecordingAfter(r, recording, playing))
  /\ UNCHANGED <<driver_vars, volume_percentage, stream_closed,
                 stop_playback_calls, cs_at_turn_start, vol_at_turn_start,
                 last_nonzero_vol, last_cs_received, config_built,
                 true_emissions>>
  /\ open_streams' = open_streams +
        (IF ShouldRetry(AudioDeviceError(attempt_number), attempt_number)
         THEN 1 ELSE 0)
  /\ UNCHANGED is_new_at_turn_start
  /\ UNCHANGED text_vars

\* variant: stop_playback() only when playback was started
StreamEndStopIfPlaying ==
  /\ main_pc = "in_assist"
  /\ gen_pc # "start"
  /\ playing' = FALSE
  /\ stop_playback_calls' = stop_playback_calls + (IF playing THEN 1 ELSE 0)
  /\ result' = continue_conversation
  /\ last_outcome' = "returned"
  /\ main_pc' = "loop"
  /\ UNCHANGED <<turns, raised_error, driver_vars, recording, volume_percentage,
                 stream_closed, retry_vars, attempt_vars, audio_seen,
                 start_playback_calls, cs_at_turn_start, cs_seen,
                 vol_at_turn_start, last_nonzero_vol, life_ghosts, budget_vars>>
  /\ open_streams' = open_streams - 1
  /\ UNCHANGED start_recording_calls
  /\ UNCHANGED writes
  /\ UNCHANGED audio_handled
  /\ UNCHANGED write_outside_playback
  /\ UNCHANGED playback_started_recording
  /\ UNCHANGED eou_seen
  /\ UNCHANGED is_new_at_turn_start
  /\ UNCHANGED cs_at_attempt_start
  /\ UNCHANGED is_new_at_attempt_start
  /\ UNCHANGED text_vars

\* the remote half-closes: the loop ends, lines 126-132
StreamEnd ==
  /\ main_pc = "in_assist"
  /\ gen_pc # "start"
  /\ playing' = FALSE
  /\ stop_playback_calls' = stop_playback_calls + 1
  /\ result' = continue_conversation
  /\ last_outcome' = "returned"
  /\ main_pc' = "loop"
  /\ UNCHANGED <<turns, raised_error, driver_vars, recording, volume_percentage,
                 stream_closed, retry_vars, attempt_vars, audio_seen,
                 start_playback_calls, cs_at_turn_start, cs_seen,
                 vol_at_turn_start, last_nonzero_vol, life_ghosts>>
  /\ UNCHANGED budget_vars
  /\ open_streams' = open_streams - 1
  /\ UNCHANGED start_recording_calls
  /\ UNCHANGED writes
  /\ UNCHANGED audio_handled
  /\ UNCHANGED write_outside_playback
  /\ UNCHANGED playback_started_recording
  /\ UNCHANGED eou_seen
  /\ UNCHANGED is_new_at_turn_start
  /\ UNCHANGED cs_at_attempt_start
  /\ UNCHANGED is_new_at_attempt_start
  /\ UNCHANGED text_vars

\* the call fails with a gRPC status while the stream is open (line 96)
RpcFails ==
  /\ main_pc = "in_assist"
  /\ \E code \in StatusCodes :
       /\ OnFailure(RpcError(code, attempt_number), recording)
       /\ open_streams' = (open_streams - 1) +
             (IF ShouldRetry(RpcError(code, attempt_number), attempt_number)
              THEN 1 ELSE 0)
  /\ UNCHANGED <<driver_vars, playing, volume_percentage, stream_closed,
                 turn_ghosts, last_cs_received, config_built, true_emissions,
                 events_delivered, chunks_read>>
  /\ UNCHANGED writes
  /\ UNCHANGED audio_handled
  /\ UNCHANGED write_outside_playback
  /\ UNCHANGED playback_started_recording
  /\ UNCHANGED is_new_at_turn_start
  /\ UNCHANGED text_vars

Next ==
  \/ WaitForPress
  \/ StartTurn
  \/ ExitLoop
  \/ GenConfig
  \/ GenAudio
  \/ GenEnd
  \/ RecvResp
  \/ RecvRespWriteFails
  \/ GenReadFails
  \/ StreamEnd
  \/ RpcFails

Spec == Init /\ [][Next]_vars

\* ---------------------------------------------- the text variant (textinput.py)
TextQueries == {1, 2}
DisplayTexts == {Empty, 1, 2}
ScreenData == {Empty, 1, 2}

\* AssistResponse: the fields the loop of SampleTextAssistant.assist looks at
TextResponses ==
  [screen_out_data : ScreenData,
   conversation_state : ConversationStates,
   supplemental_display_text : DisplayTexts]

\* lines 46-59
TextConfig(cs, isNew, q) ==
  [present |-> TRUE, conversation_state |-> cs, is_new_conversation |-> isNew,
   text_query |-> q]

\* line 64
TextRequest(cfg) ==
  [config |-> cfg, audio_in |-> Empty]

\* lines 70-71
UpdateHtmlResponse(old, data) ==
  IF data # Empty THEN data ELSE old

\* lines 72-74
UpdateTextConversationState(old, cs) ==
  IF cs # Empty THEN cs ELSE old

\* variant: the display text of every response is taken
UpdateTextResponseAlways(old, text) ==
  text

\* lines 75-76
UpdateTextResponse(old, text) ==
  IF text # Empty THEN text ELSE old

\* main: query = click.prompt(""); assistant.assist(text_query=query)
TextPrompt ==
  /\ t_pc = "prompt"
  /\ t_turns < MaxTurns
  /\ \E q \in TextQueries : t_query' = q
  /\ t_pc' = "in_assist"
  /\ t_turns' = t_turns + 1
  /\ t_gen_pc' = "start"
  /\ t_outbound' = <<>>
  /\ text_response' = None
  /\ html_response' = None
  /\ t_resps' = <<>>
  /\ t_cs_at_turn_start' = t_conversation_state
  /\ UNCHANGED <<t_conversation_state, t_is_new_conversation, t_result,
                 t_last_cs, t_config_built, t_true_emissions, t_events>>
  /\ UNCHANGED assistant_vars

\* the stub pulls the request: lines 45-65
TextGenConfig ==
  /\ t_pc = "in_assist"
  /\ t_gen_pc = "start"
  /\ t_outbound' = Append(t_outbound,
        TextRequest(TextConfig(t_conversation_state, t_is_new_conversation, t_query)))
  /\ t_is_new_conversation' = FALSE
  /\ t_gen_pc' = "yielded"
  /\ t_config_built' = TRUE
  /\ t_true_emissions' = t_true_emissions + (IF t_is_new_conversation THEN 1 ELSE 0)
  /\ UNCHANGED <<t_pc, t_turns, t_query, t_conversation_state, text_response,
                 html_response, t_result, t_resps, t_cs_at_turn_start,
                 t_last_cs, t_events>>
  /\ UNCHANGED assistant_vars

\* the stub pulls again: the generator has nothing after line 65
TextGenEnd ==
  /\ t_pc = "in_assist"
  /\ t_gen_pc = "yielded"
  /\ t_gen_pc' = "done"
  /\ UNCHANGED <<t_pc, t_turns, t_query, t_conversation_state,
                 t_is_new_conversation, t_outbound, text_response,
                 html_response, t_result, t_resps, t_cs_at_turn_start,
                 t_last_cs, t_config_built, t_true_emissions, t_events>>
  /\ UNCHANGED assistant_vars

\* one iteration of the response loop, lines 69-76
TextRecvResp ==
  /\ t_pc = "in_assist"
  /\ t_gen_pc \in {"yielded", "done"}
  /\ t_events < MaxEvents
  /\ t_events' = t_events + 1
  /\ \E r \in TextResponses :
       /\ html_response' = UpdateHtmlResponse(html_response, r.screen_out_data)
       /\ t_conversation_state' =
             UpdateTextConversationState(t_conversation_state, r.conversation_state)
       /\ text_response' =
             UpdateTextResponse(text_response, r.supplemental_display_text)
       /\ t_resps' = Append(t_resps, r)
       /\ t_last_cs' =
             (IF r.conversation_state # Empty THEN r.conversation_state
              ELSE t_last_cs)
  /\ UNCHANGED <<t_pc, t_turns, t_query, t_is_new_conversation, t_gen_pc,
                 t_outbound, t_result, t_cs_at_turn_start, t_config_built,
                 t_true_emissions>>
  /\ UNCHANGED assistant_vars

\* the remote half-closes: line 77 returns, main echoes and prompts again
TextStreamEnd ==
  /\ t_pc = "in_assist"
  /\ t_gen_pc \in {"yielded", "done"}
  /\ t_result' = <<text_response, html_response>>
  /\ t_pc' = "prompt"
  /\ UNCHANGED <<t_turns, t_query, t_conversation_state, t_is_new_conversation,
                 t_gen_pc, t_outbound, text_response, html_response, t_resps,
                 t_cs_at_turn_start, t_last_cs, t_config_built,
                 t_true_emissions, t_events>>
  /\ UNCHANGED assistant_vars

\* the call fails (line 69): nothing catches it, __exit__ returns False
TextRpcFails ==
  /\ t_pc = "in_assist"
  /\ t_pc' = "raised"
  /\ t_gen_pc' = "none"
  /\ t_outbound' = <<>>
  /\ text_response' = None
  /\ html_response' = None
  /\ t_resps' = <<>>
  /\ UNCHANGED <<t_turns, t_query, t_conversation_state, t_is_new_conversation,
                 t_result, t_cs_at_turn_start, t_last_cs, t_config_built,
                 t_true_emissions, t_events>>
  /\ UNCHANGED assistant_vars

NextText ==
  \/ TextPrompt
  \/ TextGenConfig
  \/ TextGenEnd
  \/ TextRecvResp
  \/ TextStreamEnd
  \/ TextRpcFails

SpecText == Init /\ [][NextText]_vars

TypeOK ==
  /\ main_pc \in {"waiting", "loop", "in_assist", "raised", "closed"}
  /\ gen_pc \in {"none", "start", "streaming", "done"}
  /\ turns \in 0..MaxTurns
  /\ conversation_state \in {None} \cup ConversationStates
  /\ volume_percentage \in 0..100
  /\ Len(outbound) <= MaxChunks + 1

\* ------------------------------------------------------------ properties

\* assist has returned to main and its frame is still at hand
JustReturned ==
  main_pc = "loop" /\ last_outcome = "returned"

\* C1: in every attempt the request generator yields exactly one config
\* request, as its first request, and every later request is an audio
\* request that carries the chunk read from the transport and no config.
C1_ConfigFirstThenAudio ==
  /\ gen_pc \in {"none", "start"} => outbound = <<>>
  /\ gen_pc \in {"streaming", "done"} => Len(outbound) = Len(reads) + 1
  /\ \A i \in 1..Len(outbound) :
        /\ outbound[i].config.present <=> (i = 1)
        /\ (outbound[i].audio_in = Empty) <=> (i = 1)
        /\ i > 1 => outbound[i].audio_in = reads[i - 1]
  /\ JustReturned => Len(outbound) >= 1

C1_Witness ==
  /\ last_outcome = "returned"
  /\ Len(outbound) = 2
  /\ outbound[1].config.present
  /\ outbound[2].audio_in = reads[1]

\* C2: over all turns and retried attempts of one Assistant, the first
\* config request ever built carries is_new_conversation = TRUE and every
\* config request built after it carries FALSE: at most one TRUE emission,
\* and the flag is never set back.
C2_NewConversationOnce ==
  /\ true_emissions <= 1
  /\ config_built => (~is_new_conversation /\ true_emissions = 1)
  /\ ~config_built => (is_new_conversation /\ true_emissions = 0)
  /\ (Len(outbound) > 0 /\ outbound[1].config.is_new_conversation)
        => (turns = 1 /\ true_emissions = 1)

C2_Witness ==
  /\ turns = 2
  /\ attempt_number = 2
  /\ Len(outbound) > 0
  /\ ~outbound[1].config.is_new_conversation
  /\ true_emissions = 1

\* the value the microphone-mode directives ask for, last write wins: some
\* response carried follow-on and every later one left the mode unspecified
LastDirectiveIsFollowOn(modes) ==
  \E i \in 1..Len(modes) :
    /\ modes[i] = DIALOG_FOLLOW_ON
    /\ \A j \in (i + 1)..Len(modes) : modes[j] = "MICROPHONE_MODE_UNSPECIFIED"

IsTransportUnavailable(e) ==
  e.is_grpc_error /\ e.code = "UNAVAILABLE"

\* C4: a call makes at most 3 attempts; when two attempts fail with
\* UNAVAILABLE and the third succeeds the caller gets the third attempt's
\* value; when three attempts fail with UNAVAILABLE the third failure
\* reaches the caller unchanged and there is no fourth attempt.
C4_AtMostThreeAttempts ==
  /\ attempt_number <= 3
  /\ Len(failures) <= 3
  /\ JustReturned =>
        /\ attempt_number = Len(failures) + 1
        /\ result = continue_conversation
        /\ \A i \in 1..Len(failures) :
              IsTransportUnavailable(failures[i]) /\ failures[i].attempt = i
  /\ (last_outcome = "raised" /\ IsTransportUnavailable(raised_error)) =>
        /\ Len(failures) = 3
        /\ attempt_number = 3
        /\ raised_error = failures[3]
        /\ raised_error.attempt = 3
  /\ (main_pc = "in_assist" /\ attempt_number = 3) =>
        /\ Len(failures) = 2
        /\ \A i \in 1..2 : IsTransportUnavailable(failures[i])

C4_Witness ==
  /\ last_outcome = "returned"
  /\ Len(failures) = 2
  /\ attempt_number = 3
  /\ modes_seen = <<DIALOG_FOLLOW_ON>>
  /\ result = TRUE

\* C5: an attempt that fails with anything but UNAVAILABLE (another gRPC
\* status, or an exception that is no gRPC error) ends the call at once:
\* that exception reaches the caller and no further attempt is made,
\* whatever the attempt number.
C5_OtherFailuresPropagate ==
  \A i \in 1..Len(failures) :
    ~IsTransportUnavailable(failures[i]) =>
      /\ i = Len(failures)
      /\ main_pc = "raised"
      /\ raised_error = failures[i]
      /\ attempt_number = failures[i].attempt

C5_Witness ==
  /\ main_pc = "raised"
  /\ attempt_number = 2
  /\ raised_error.is_grpc_error
  /\ raised_error.code = "DEADLINE_EXCEEDED"
  /\ raised_error.attempt = 2

\* C6 as stated: the config request of a turn carries the conversation
\* state the last earlier turn left behind.
C6_Original ==
  (main_pc = "in_assist" /\ Len(outbound) > 0) =>
    outbound[1].config.conversation_state = cs_at_turn_start

\* C6 amended: every config request carries the last non-empty conversation
\* state handled before it was built, in an earlier turn or in an earlier
\* attempt of the same turn (None if there was none); empty values leave
\* the stored state unchanged.
C6_RoundTrip ==
  /\ conversation_state = last_cs_received
  /\ (main_pc = "in_assist" /\ Len(outbound) > 0 /\ modes_seen = <<>>) =>
        outbound[1].config.conversation_state = last_cs_received

C6_Witness ==
  /\ turns = 2
  /\ main_pc = "in_assist"
  /\ events_delivered = 2
  /\ modes_seen = <<>>
  /\ Len(outbound) > 0
  /\ outbound[1].config.conversation_state = 2
  /\ cs_at_turn_start = 2

\* C7 as stated: without a response that carries audio, neither
\* start_playback nor stop_playback is invoked.
C7_Original ==
  ~audio_seen => (start_playback_calls = 0 /\ stop_playback_calls = 0)

\* C7 amended: without a response that carries audio, start_playback is
\* never invoked; stop_playback is invoked once, when the inbound stream
\* ends normally, and not before.
C7_NoAudioNoStart ==
  ~audio_seen =>
    /\ start_playback_calls = 0
    /\ stop_playback_calls = (IF last_outcome = "returned" THEN 1 ELSE 0)

C7_Witness ==
  /\ last_outcome = "returned"
  /\ ~audio_seen
  /\ Len(modes_seen) = 2
  /\ start_playback_calls = 0
  /\ stop_playback_calls = 1

\* C8: a response with volume 0 leaves the transport's volume unchanged, a
\* response with a nonzero volume v sets it to v: during and after a turn
\* the volume is the last nonzero value handled in the turn, or the value
\* from before the turn if there was none.
C8_VolumeLastNonzero ==
  turns > 0 =>
    volume_percentage =
      (IF last_nonzero_vol # 0 THEN last_nonzero_vol ELSE vol_at_turn_start)

C8_Witness ==
  /\ last_outcome = "returned"
  /\ turns = 2
  /\ vol_at_turn_start = 100
  /\ last_nonzero_vol = 45
  /\ volume_percentage = 45

\* C9 as stated: when a call fails, the stored conversation state is the
\* one from before the turn, wherever the failure occurs.
C9_Original ==
  last_outcome = "raised" => conversation_state = cs_at_turn_start

\* C9 amended: when a call fails and no response with a non-empty
\* conversation state was delivered in the turn (in particular when it
\* fails before any response is handled), the stored conversation state is
\* the one from before the turn.
C9_NoStateNoCommit ==
  (last_outcome = "raised" /\ ~cs_seen) => conversation_state = cs_at_turn_start

C9_Witness ==
  /\ last_outcome = "raised"
  /\ ~cs_seen
  /\ turns = 2
  /\ events_delivered = 2
  /\ cs_at_turn_start = 1
  /\ conversation_state = 1

\* C10: when the inbound stream ends normally, stop_playback is invoked
\* exactly once, after the last response was handled and before the call
\* returns, whether or not playback had been started.
C10_StopPlaybackOnce ==
  /\ main_pc = "in_assist" => stop_playback_calls = 0
  /\ last_outcome = "returned" => (stop_playback_calls = 1 /\ ~playing)

C10_Witness ==
  /\ last_outcome = "returned"
  /\ start_playback_calls = 1
  /\ stop_playback_calls = 1
  /\ attempt_number = 2
  /\ ~playing

\* the text call has returned to main
TextJustReturned ==
  t_pc = "prompt" /\ t_turns > 0

\* v is the last non-empty value of field f over the responses rs, None if
\* every one was empty
IsLastNonEmpty(v, rs, f(_)) ==
  \/ /\ v = None
     /\ \A i \in 1..Len(rs) : f(rs[i]) = Empty
  \/ \E i \in 1..Len(rs) :
       /\ f(rs[i]) = v
       /\ v # Empty
       /\ \A j \in (i + 1)..Len(rs) : f(rs[j]) = Empty

DisplayTextOf(r) ==
  r.supplemental_display_text

ScreenDataOf(r) ==
  r.screen_out_data

\* C11: a text call yields exactly one request, a config that carries the
\* text query and no audio; it returns the last non-empty supplemental
\* display text and the last non-empty screen data of its responses, None
\* where there was none; the stored conversation state is the last non-empty
\* one handled and goes into the next config, and only the first config
\* ever built carries is_new_conversation.
C11_TextTurn ==
  /\ Len(t_outbound) <= 1
  /\ t_gen_pc \in {"yielded", "done"} => Len(t_outbound) = 1
  /\ \A i \in 1..Len(t_outbound) :
        /\ t_outbound[i].config.present
        /\ t_outbound[i].config.text_query = t_query
        /\ t_outbound[i].audio_in = Empty
        /\ t_outbound[i].config.conversation_state = t_cs_at_turn_start
        /\ t_outbound[i].config.is_new_conversation <=> (t_turns = 1)
  /\ TextJustReturned =>
        /\ IsLastNonEmpty(t_result[1], t_resps, DisplayTextOf)
        /\ IsLastNonEmpty(t_result[2], t_resps, ScreenDataOf)
        /\ Len(t_outbound) = 1
  /\ t_conversation_state = t_last_cs
  /\ t_true_emissions <= 1
  /\ t_config_built => (~t_is_new_conversation /\ t_true_emissions = 1)
  /\ ~t_config_built => (t_is_new_conversation /\ t_true_emissions = 0)

C11_Witness ==
  /\ TextJustReturned
  /\ t_turns = 2
  /\ Len(t_resps) = 2
  /\ t_resps[1].supplemental_display_text = 2
  /\ t_resps[2].supplemental_display_text = Empty
  /\ t_resps[1].screen_out_data = 1
  /\ t_resps[2].screen_out_data = 2
  /\ t_result = <<2, 2>>
  /\ ~t_outbound[1].config.is_new_conversation

\* C12: at most one response stream is open at any time, and one is open
\* only while main is inside assist (or a non-gRPC error has just left it):
\* a turn or a retried attempt begins only when the stream before it ended.
C12_OneStreamAtATime ==
  /\ open_streams \in {0, 1}
  /\ main_pc = "in_assist" => open_streams = 1
  /\ main_pc \in {"waiting", "loop", "closed"} => open_streams = 0

C12_Witness ==
  /\ main_pc = "in_assist"
  /\ turns = 2
  /\ attempt_number = 2
  /\ open_streams = 1
  /\ Len(modes_seen) = 1

C14_RecordingStartsFirst ==
  /\ main_pc = "in_assist" => start_recording_calls = attempt_number
  /\ (main_pc = "in_assist" /\ gen_pc = "start") =>
        /\ recording
        /\ outbound = <<>>
        /\ modes_seen = <<>>
  /\ (main_pc = "in_assist" /\ (outbound # <<>> \/ modes_seen # <<>>)) =>
        start_recording_calls >= 1

C14_Witness ==
  /\ main_pc = "in_assist"
  /\ attempt_number = 2
  /\ start_recording_calls = 2
  /\ recording
  /\ Len(outbound) = 2
  /\ events_delivered = 1

\* C15: within a turn start_playback() is called at most once and only
\* after a response with audio, never while the transport records; every
\* write() call is made while the transport plays, and the write() calls
\* of the turn are the non-empty audio payloads handled, in their order.
C15_PlaybackOnceWritesInOrder ==
  /\ start_playback_calls <= 1
  /\ start_playback_calls = 1 => audio_handled # <<>>
  /\ ~playback_started_recording
  /\ ~write_outside_playback
  /\ writes = audio_handled
  /\ (main_pc = "in_assist" /\ writes # <<>>) => playing

C15_Witness ==
  /\ JustReturned
  /\ attempt_number = 2
  /\ writes = <<1, 2>>
  /\ start_playback_calls = 1
  /\ Len(modes_seen) = 1

\* C16: once an attempt has handled a response with END_OF_UTTERANCE the
\* transport does not record: stop_recording() ran within that iteration,
\* and nothing turns recording on again before the next attempt or turn.
C16_EndOfUtteranceStopsRecording ==
  eou_seen => ~recording

C16_Witness ==
  /\ main_pc = "in_assist"
  /\ eou_seen
  /\ Len(modes_seen) = 2
  /\ gen_pc = "done"
  /\ ~playing
  /\ ~recording

\* C17: the transport never records and plays at the same time.
C17_NeverRecordingAndPlaying ==
  ~(recording /\ playing)

\* the frame of the current or the last returned call of assist is at hand
FrameAtHand ==
  main_pc = "in_assist" \/ JustReturned

\* C18 as stated: the config request of a turn carries the conversation
\* state and the is_new_conversation flag the Assistant held when the turn
\* started.
C18_Original ==
  (FrameAtHand /\ Len(outbound) > 0) =>
    /\ outbound[1].config.conversation_state = cs_at_turn_start
    /\ outbound[1].config.is_new_conversation = is_new_at_turn_start

\* C18 amended: the config request of an attempt carries the conversation
\* state and the is_new_conversation flag the Assistant held when that
\* attempt started, which for a first attempt is when the turn started;
\* until the config request is built no response of the attempt has been
\* handled and the two fields are untouched.
C18_ConfigFromAttemptStart ==
  /\ (FrameAtHand /\ Len(outbound) > 0) =>
        /\ outbound[1].config.conversation_state = cs_at_attempt_start
        /\ outbound[1].config.is_new_conversation = is_new_at_attempt_start
  /\ (main_pc = "in_assist" /\ gen_pc = "start") =>
        /\ modes_seen = <<>>
        /\ conversation_state = cs_at_attempt_start
        /\ is_new_conversation = is_new_at_attempt_start
  /\ (main_pc = "in_assist" /\ attempt_number = 1) =>
        /\ cs_at_attempt_start = cs_at_turn_start
        /\ is_new_at_attempt_start = is_new_at_turn_start

C18_Witness ==
  /\ main_pc = "in_assist"
  /\ turns = 1
  /\ attempt_number = 2
  /\ Len(outbound) = 2
  /\ Len(modes_seen) = 1
  /\ conversation_state = 2
  /\ outbound[1].config.conversation_state = 1
  /\ cs_at_turn_start = None
  /\ is_new_at_turn_start
  /\ ~outbound[1].config.is_new_conversation

\* C19: what main does after a call of assist returned follows the value
\* returned: after FALSE no further call is made without a new press of
\* the trigger, and after TRUE main does not leave the loop but calls
\* assist again.
C19_ContinuationDecides ==
  [][/\ (JustReturned /\ ~result) => turns' = turns
     /\ (JustReturned /\ result /\ turns < MaxTurns) => main_pc' # "closed"]_vars

====
